---- MODULE Spec2Model ----
(***************************************************************************)
(* Medallion pipeline of sales_test: the orchestrator                      *)
(* (run_all_pipelines.py), the ingestion stage (step01_bronze_load.py),    *)
(* the conformance stage (silver_load_clean.py), the modeling stage        *)
(* (step03_gold_load.py) and the export stage                              *)
(* (step04_export_medallion_layers.py), as one state machine over the two  *)
(* DuckDB files the scripts name and the raw documents.                    *)
(***************************************************************************)
EXTENDS Integers, Sequences, FiniteSets, TLC

VARIABLES
    orch,        \* run_all_pipelines.main: [pc, i, started, codes]
    proc,        \* the running stage process: [script, pc, by]
    runs,        \* finished stage processes, oldest first: [script, rc, con, by]
    invocations, \* number of commands the shell has issued
    con,         \* the running stage's duckdb connection: [state, file]
    dbs,         \* DuckDB file -> [exists, tables]
    faults,      \* I/O failures the environment may still inject into an export
    load,        \* load_bronze_table frame: [k, trace, read]
    logs,        \* per-stage append-only log files: [bronze, silver, gold]
    built,       \* tables created or replaced by the running (or last) stage
    exports,     \* the running (or last) export's report, one entry per table
    docs         \* data/raw: file name -> content (a sequence of characters)

vars == <<orch, proc, runs, invocations, con, dbs, faults, load, logs, built, exports, docs>>

(***************************************************************************)
(* Bounds of the model.                                                    *)
(***************************************************************************)
\* commands issued from the shell in one behaviour
MaxRuns == 2
\* rows of a tier-1 input table drawn for the conformance and modeling checks
MaxRows == 2
\* I/O failures the environment injects into one export
MaxFaults == 2
\* characters of a document handed to fix_to_ndjson on its own
MaxChars == 5

(***************************************************************************)
(* SQL values.  A column value is NULL or a tagged value: BIGINT [i],      *)
(* VARCHAR [s], DATE [d] (a day number), DOUBLE [f] (whole numbers only).  *)
(***************************************************************************)
NULL == [null |-> TRUE]
IntV(n) == [i |-> n]
TxtV(t) == [s |-> t]
DateV(n) == [d |-> n]
DblV(n) == [f |-> n]
IsNull(v) == v = NULL
IsInt(v) == DOMAIN v = {"i"}
IsTxt(v) == DOMAIN v = {"s"}
IsDate(v) == DOMAIN v = {"d"}
IsDbl(v) == DOMAIN v = {"f"}

\* the result of a cast that DuckDB refuses (Conversion Error)
CastError == [error |-> "Conversion Error"]

\* VARCHAR -> number, on the numerals the inputs use; any other text is refused
ParseNumber(t) ==
    CASE t = "1" -> 1
      [] t = "2" -> 2
      [] t = "3" -> 3
      [] OTHER -> -1

CastBigint(v) ==
    IF IsNull(v) THEN NULL
    ELSE IF IsInt(v) THEN v
    ELSE IF IsDbl(v) THEN IntV(v.f)
    ELSE IF IsTxt(v) THEN (IF ParseNumber(v.s) >= 0 THEN IntV(ParseNumber(v.s)) ELSE CastError)
    ELSE CastError

CastDouble(v) ==
    IF IsNull(v) THEN NULL
    ELSE IF IsDbl(v) THEN v
    ELSE IF IsInt(v) THEN DblV(v.i)
    ELSE IF IsTxt(v) THEN (IF ParseNumber(v.s) >= 0 THEN DblV(ParseNumber(v.s)) ELSE CastError)
    ELSE CastError

CastVarchar(v) ==
    IF IsNull(v) THEN NULL
    ELSE IF IsTxt(v) THEN v
    ELSE IF IsInt(v) THEN (IF v.i = 1 THEN TxtV("1") ELSE IF v.i = 2 THEN TxtV("2") ELSE TxtV("3"))
    ELSE CastError

CastDate(v) ==
    IF IsNull(v) THEN NULL
    ELSE IF IsDate(v) THEN v
    ELSE CastError

\* SQL equality in a join condition: never true when an operand is NULL
SqlEq(a, b) == ~IsNull(a) /\ ~IsNull(b) /\ a = b

(***************************************************************************)
(* Files and tables.                                                       *)
(***************************************************************************)
\* src/pipelines of the repository
PipelinesDir ==
    { "run_all_pipelines.py", "step01_bronze_load.py", "silver_load_clean.py",
      "step03_gold_load.py", "step03_export_medallion_layers.py",
      "step04_export_medallion_layers.py" }

PIPELINE_STEPS ==
    << "step01_bronze_load.py", "step02_silver_load.py", "step03_gold_load.py",
       "step04_export_medallion_layers.py" >>

\* the scripts with a main() that the model runs as a stage process
StageScripts ==
    { "step01_bronze_load.py", "silver_load_clean.py", "step03_gold_load.py",
      "step04_export_medallion_layers.py" }

\* DB_PATH of each script
BronzeDbPath == "src/sales.duckdb"
SilverDbPath == "sales.duckdb"
GoldDbPath == "src/sales.duckdb"
ExportDbPath == "src/sales.duckdb"
DbFiles == {"src/sales.duckdb", "sales.duckdb"}

tables_to_load ==
    << <<"customers.json", "bronze_customers">>,
       <<"products.json", "bronze_products">>,
       <<"orders.json", "bronze_orders">>,
       <<"sales.json", "bronze_sales">>,
       <<"countries.json", "bronze_countries">> >>

BRONZE_TABLES ==
    << "bronze_customers", "bronze_orders", "bronze_sales", "bronze_products",
       "bronze_countries" >>
SILVER_TABLES ==
    << "silver_customers", "silver_orders", "silver_sales", "silver_products",
       "silver_countries", "silver_fact_sales" >>
GOLD_TABLES ==
    << "gold_dim_customer", "gold_dim_product", "gold_dim_country", "gold_dim_date",
       "gold_fact_sales" >>

Range(s) == {s[n] : n \in DOMAIN s}
BronzeNames == Range(BRONZE_TABLES)
SilverNames == Range(SILVER_TABLES)
GoldNames == Range(GOLD_TABLES)
TableNames == BronzeNames \cup SilverNames \cup GoldNames

\* a table that does not exist in a database file
NoTable == [missing |-> TRUE]
NoTables == [t \in TableNames |-> NoTable]
\* a table that exists, with its rows
Table(rows) == [rows |-> rows]
HasTable(file, t) == dbs[file].exists /\ dbs[file].tables[t] # NoTable
Rows(file, t) == dbs[file].tables[t].rows

\* CREATE OR REPLACE TABLE t AS <rows> on the open connection
Replaced(t, rows) ==
    [dbs EXCEPT ![con.file].tables[t] = Table(rows)]

(***************************************************************************)
(* Tier-1 rows.  Of each raw document the model keeps the columns that a   *)
(* join, a filter or a later projection reads; the other columns of the    *)
(* source (Active, Address, Email, Region, Population, ...) go through the *)
(* same CAST-and-copy and are left out.                                    *)
(***************************************************************************)
BronzeCustomer(id, country) ==
    [CustomerId |-> id, Name |-> TxtV("Ann"), City |-> TxtV("Oslo"), Country |-> country]
BronzeProduct(id, weight) ==
    [ProductId |-> id, Name |-> TxtV("Bolt"), ManufacturedCountry |-> TxtV("Norway"),
     WeightGrams |-> weight]
BronzeOrder(id, customer, date) ==
    [OrderId |-> id, CustomerId |-> customer, Date |-> date]
BronzeSale(id, order, product, quantity) ==
    [SaleId |-> id, OrderId |-> order, ProductId |-> product, Quantity |-> quantity]
BronzeCountry(country) ==
    [Country |-> country, Currency |-> TxtV("NOK"), GDP_per_capita |-> IntV(3)]

\* the day number (days since 1970-01-01) of a calendar date, as the engine
\* stores a DATE it has parsed from "YYYY-MM-DD"
DayNumber(year, month, day) ==
    LET y == IF month <= 2 THEN year - 1 ELSE year
        era == y \div 400
        yoe == y - era * 400
        doy == (153 * (IF month > 2 THEN month - 3 ELSE month + 9) + 2) \div 5 + day - 1
        doe == yoe * 365 + yoe \div 4 - yoe \div 100 + doy
    IN  era * 146097 + doe - 719468

\* 2020-02-28, the first order date the inputs use
BaseDay == DayNumber(2020, 2, 28)

\* the raw documents of data/raw as text: two records, the first followed by
\* a comma
SampleDocs ==
    [f \in {"customers.json", "products.json", "orders.json", "sales.json", "countries.json"}
        |-> << "x", ",", "\n", "x", "\n" >>]

\* the records of the raw documents of data/raw, by target table
RawRecords(t) ==
    CASE t = "bronze_customers" -> << BronzeCustomer(IntV(1), TxtV("Norway")) >>
      [] t = "bronze_products" -> << BronzeProduct(IntV(1), IntV(2)) >>
      [] t = "bronze_orders" -> << BronzeOrder(IntV(1), IntV(1), DateV(BaseDay)) >>
      [] t = "bronze_sales" -> << BronzeSale(IntV(1), IntV(1), IntV(1), IntV(2)) >>
      [] t = "bronze_countries" -> << BronzeCountry(TxtV("Norway")) >>

(***************************************************************************)
(* Processes.  The shell issues commands one at a time; a stage script     *)
(* runs as a process started by the shell or by the orchestrator.          *)
(***************************************************************************)
NoProc == [script |-> "none", pc |-> "none", by |-> "none"]
NoCon == [state |-> "none", file |-> "none"]
NoLoad == [k |-> 0, trace |-> <<>>, read |-> <<>>]

Idle == proc.script = "none" /\ orch.pc \in {"none", "done", "raised"}

\* python <script>: a fresh process at the top of its main()
Started(script, by) == [script |-> script, pc |-> "main", by |-> by]

\* the process ends with exit code rc, its connection left as c
Finished(rc, c) ==
    Append(runs, [script |-> proc.script, rc |-> rc, con |-> c.state, by |-> proc.by])

\* engine outcomes of one con.execute() of a load statement
LoadOutcomes == {"ok", "InvalidInputException", "OtherError"}

(***************************************************************************)
(* run_all_pipelines.py                                                    *)
(***************************************************************************)
\* the shell runs run_all_pipelines.py
ShellRunAll ==
    /\ Idle
    /\ invocations < MaxRuns
    /\ invocations' = invocations + 1
    /\ orch' = [pc |-> "loop", i |-> 1, started |-> <<>>, codes |-> <<>>]
    /\ UNCHANGED <<exports, proc, runs, con, dbs, faults, load, logs, built, docs>>

\* the shell runs one stage script on its own
ShellRun(script) ==
    /\ Idle
    /\ invocations < MaxRuns
    /\ invocations' = invocations + 1
    /\ proc' = Started(script, "shell")
    /\ con' = NoCon
    /\ load' = NoLoad
    /\ built' = {}
    /\ UNCHANGED <<exports, orch, runs, dbs, faults, logs, docs>>

ShellRunStage == \E script \in StageScripts : ShellRun(script)

\* MainLoop, had run_step skipped a missing script instead of raising
MainLoopSkipsMissing ==
    /\ orch.pc = "loop"
    /\ proc.script = "none"
    /\ IF orch.i > Len(PIPELINE_STEPS)
       THEN /\ orch' = [orch EXCEPT !.pc = "done"]
            /\ UNCHANGED <<proc, con, load, built>>
       ELSE IF PIPELINE_STEPS[orch.i] \notin PipelinesDir
       THEN /\ orch' = [orch EXCEPT !.i = @ + 1]
            /\ UNCHANGED <<proc, con, load, built>>
       ELSE /\ orch' = [orch EXCEPT !.pc = "wait",
                                    !.started = Append(@, PIPELINE_STEPS[orch.i])]
            /\ proc' = Started(PIPELINE_STEPS[orch.i], "orch")
            /\ con' = NoCon
            /\ load' = NoLoad
            /\ built' = {}
    /\ UNCHANGED <<exports, runs, invocations, dbs, faults, logs, docs>>

\* main(): the next turn of "for script in PIPELINE_STEPS: run_step(script)",
\* up to the subprocess being started, or the final message after the loop
MainLoop ==
    /\ orch.pc = "loop"
    /\ proc.script = "none"
    /\ IF orch.i > Len(PIPELINE_STEPS)
       THEN /\ orch' = [orch EXCEPT !.pc = "done"]
            /\ UNCHANGED <<proc, con, load, built>>
       ELSE IF PIPELINE_STEPS[orch.i] \notin PipelinesDir
       THEN /\ orch' = [orch EXCEPT !.pc = "raised"]
            /\ UNCHANGED <<proc, con, load, built>>
       ELSE /\ orch' = [orch EXCEPT !.pc = "wait",
                                    !.started = Append(@, PIPELINE_STEPS[orch.i])]
            /\ proc' = Started(PIPELINE_STEPS[orch.i], "orch")
            /\ con' = NoCon
            /\ load' = NoLoad
            /\ built' = {}
    /\ UNCHANGED <<exports, runs, invocations, dbs, faults, logs, docs>>

\* subprocess.check_call returns (exit code 0) or raises CalledProcessError
CheckCallReturn ==
    /\ orch.pc = "wait"
    /\ proc.script = "none"
    /\ IF runs[Len(runs)].rc = 0
       THEN orch' = [orch EXCEPT !.pc = "loop", !.i = @ + 1,
                                 !.codes = Append(@, runs[Len(runs)].rc)]
       ELSE orch' = [orch EXCEPT !.pc = "raised",
                                 !.codes = Append(@, runs[Len(runs)].rc)]
    /\ UNCHANGED <<exports, proc, runs, invocations, con, dbs, faults, load, logs, built, docs>>

(***************************************************************************)
(* step01_bronze_load.py                                                   *)
(***************************************************************************)
InBronze(pc) == proc.script = "step01_bronze_load.py" /\ proc.pc = pc

\* duckdb.connect(path): opens the file, creating an empty database if absent
Connected(path) ==
    [dbs EXCEPT ![path] = IF @.exists THEN @ ELSE [exists |-> TRUE, tables |-> NoTables]]

\* main(): con = duckdb.connect(str(DB_PATH))
BronzeConnect ==
    /\ InBronze("main")
    /\ con' = [state |-> "open", file |-> BronzeDbPath]
    /\ dbs' = Connected(BronzeDbPath)
    /\ load' = NoLoad
    /\ proc' = [proc EXCEPT !.pc = "check"]
    /\ UNCHANGED <<exports, orch, runs, invocations, faults, logs, built, docs>>

\* fix_to_ndjson: path.with_name(path.stem + "_fixed.json")
FixedName(filename) ==
    CASE filename = "customers.json" -> "customers_fixed.json"
      [] filename = "products.json" -> "products_fixed.json"
      [] filename = "orders.json" -> "orders_fixed.json"
      [] filename = "sales.json" -> "sales_fixed.json"
      [] filename = "countries.json" -> "countries_fixed.json"
      [] filename = "customers_fixed.json" -> "customers_fixed_fixed.json"

\* the concatenation of a sequence of sequences
RECURSIVE Flatten(_)
Flatten(ss) == IF ss = <<>> THEN <<>> ELSE Head(ss) \o Flatten(Tail(ss))

\* The characters of a document: "x" stands for any character that is
\* neither whitespace nor a comma, " " for a whitespace character other than
\* the line feed.
Chars == {"x", " ", ",", "\n"}
Whitespace == {" ", "\n"}

\* "for line in src": the lines of the content, each with its line feed, the
\* last one without when the content does not end in a line feed
RECURSIVE SplitLines(_)
SplitLines(content) ==
    IF content = <<>> THEN <<>>
    ELSE LET ends == {n \in DOMAIN content : content[n] = "\n"}
             cut == IF ends = {} THEN Len(content)
                    ELSE CHOOSE n \in ends : \A m \in ends : n <= m
         IN  << SubSeq(content, 1, cut) >>
                \o SplitLines(SubSeq(content, cut + 1, Len(content)))

\* str.strip(): without the leading and the trailing whitespace
Strip(line) ==
    LET solid == {n \in DOMAIN line : line[n] \notin Whitespace}
    IN  IF solid = {} THEN <<>>
        ELSE SubSeq(line, CHOOSE n \in solid : \A m \in solid : n <= m,
                          CHOOSE n \in solid : \A m \in solid : n >= m)

\* what the loop body of fix_to_ndjson writes for one line
FixedLine(line) ==
    LET cleaned == Strip(line)
    IN  IF cleaned = <<>> THEN <<>>
        ELSE IF cleaned[Len(cleaned)] = ","
        THEN SubSeq(cleaned, 1, Len(cleaned) - 1) \o << "\n" >>
        ELSE cleaned \o << "\n" >>

fix_to_ndjson_no_newline(content) ==
    LET ls == SplitLines(content)
    IN  Flatten([n \in DOMAIN ls |->
           IF FixedLine(ls[n]) = <<>> THEN <<>>
           ELSE SubSeq(FixedLine(ls[n]), 1, Len(FixedLine(ls[n])) - 1)])

\* fix_to_ndjson: the content written to <stem>_fixed.json
fix_to_ndjson(content) ==
    LET ls == SplitLines(content)
    IN  Flatten([n \in DOMAIN ls |-> FixedLine(ls[n])])

\* data/raw after fix_to_ndjson(path)
FixWritten(path) == [f \in DOMAIN docs \cup {FixedName(path)} |->
                        IF f = FixedName(path) THEN fix_to_ndjson(docs[path]) ELSE docs[f]]

\* a call fix_to_ndjson(path) on a document or on a repaired document
FixCall ==
    /\ \E path \in DOMAIN docs \cap {"customers.json", "customers_fixed.json"} :
          /\ FixedName(path) \notin DOMAIN docs
          /\ docs' = FixWritten(path)
    /\ UNCHANGED <<orch, proc, runs, invocations, con, dbs, faults, load, logs, built, exports>>

\* after load_bronze_table returns: the next pair of the loop, or con.close();
\* load.k is the index in tables_to_load of the current (or last) call
AfterLoad == IF load.k < Len(tables_to_load) THEN "check" ELSE "close"

\* LoadCheckFile, had a missing document been skipped instead of raised
LoadCheckFileSkipsMissing ==
    /\ InBronze("check")
    /\ \E present \in BOOLEAN :
          IF present
          THEN /\ proc' = [proc EXCEPT !.pc = "strict"]
               /\ load' = [k |-> load.k + 1, trace |-> <<"Attempting">>, read |-> <<>>]
          ELSE /\ proc' = [proc EXCEPT !.pc = IF load.k + 1 < Len(tables_to_load)
                                                THEN "check" ELSE "close"]
               /\ load' = [k |-> load.k + 1, trace |-> <<"Missing">>, read |-> <<>>]
    /\ UNCHANGED <<exports, orch, runs, invocations, con, dbs, faults, logs, built, docs>>

\* load_bronze_table: if not file_path.exists(): raise FileNotFoundError
LoadCheckFile ==
    /\ InBronze("check")
    /\ \E present \in BOOLEAN :
          IF present
          THEN /\ proc' = [proc EXCEPT !.pc = "strict"]
               /\ load' = [k |-> load.k + 1, trace |-> <<"Attempting">>, read |-> <<>>]
               /\ UNCHANGED runs
          ELSE /\ proc' = NoProc
               /\ load' = [k |-> load.k + 1, trace |-> <<"Missing">>, read |-> <<>>]
               /\ runs' = Finished(1, con)
    /\ UNCHANGED <<exports, orch, invocations, con, dbs, faults, logs, built, docs>>

\* load_bronze_table: CREATE OR REPLACE TABLE ... FROM read_json_auto(file)
LoadStrict ==
    /\ InBronze("strict")
    /\ \E outcome \in LoadOutcomes :
          CASE outcome = "ok" ->
                 /\ dbs' = Replaced(tables_to_load[load.k][2],
                                    RawRecords(tables_to_load[load.k][2]))
                 /\ built' = built \cup {tables_to_load[load.k][2]}
                 /\ load' = [load EXCEPT !.trace = Append(@, "Success"),
                                         !.read = Append(@, tables_to_load[load.k][1])]
                 /\ proc' = [proc EXCEPT !.pc = AfterLoad]
                 /\ UNCHANGED runs
            [] outcome = "InvalidInputException" ->
                 /\ proc' = [proc EXCEPT !.pc = "repair"]
                 /\ load' = [load EXCEPT !.trace = Append(@, "Malformed"),
                                         !.read = Append(@, tables_to_load[load.k][1])]
                 /\ UNCHANGED <<dbs, built, runs>>
            [] outcome = "OtherError" ->
                 /\ proc' = NoProc
                 /\ load' = [load EXCEPT !.trace = Append(@, "Fatal"),
                                         !.read = Append(@, tables_to_load[load.k][1])]
                 /\ runs' = Finished(1, con)
                 /\ UNCHANGED <<dbs, built>>
    /\ UNCHANGED <<exports, orch, invocations, con, faults, logs, docs>>

\* load_bronze_table: fixed_path = fix_to_ndjson(file_path), which writes the
\* sibling <stem>_fixed.json that the retry reads
LoadRepair ==
    /\ InBronze("repair")
    /\ load' = [load EXCEPT !.trace = Append(@, "Repairing")]
    /\ docs' = FixWritten(tables_to_load[load.k][1])
    /\ proc' = [proc EXCEPT !.pc = "retry"]
    /\ UNCHANGED <<exports, orch, runs, invocations, con, dbs, faults, logs, built>>

\* LoadRetry, had a failed retry gone back to the repair pass
LoadRetryRepairsAgain ==
    /\ InBronze("retry")
    /\ \E outcome \in LoadOutcomes :
          IF outcome = "ok"
          THEN /\ dbs' = Replaced(tables_to_load[load.k][2],
                                  RawRecords(tables_to_load[load.k][2]))
               /\ built' = built \cup {tables_to_load[load.k][2]}
               /\ load' = [load EXCEPT !.trace = @ \o <<"Retrying", "Success">>,
                                       !.read = Append(@, FixedName(tables_to_load[load.k][1]))]
               /\ proc' = [proc EXCEPT !.pc = AfterLoad]
          ELSE /\ Len(load.trace) < 8
               /\ proc' = [proc EXCEPT !.pc = "repair"]
               /\ load' = [load EXCEPT !.trace = Append(@, "Retrying"),
                                       !.read = Append(@, FixedName(tables_to_load[load.k][1]))]
               /\ UNCHANGED <<dbs, built>>
    /\ UNCHANGED <<exports, orch, runs, invocations, con, faults, logs, docs>>

\* load_bronze_table: CREATE OR REPLACE TABLE ... FROM read_ndjson_auto(fixed)
LoadRetry ==
    /\ InBronze("retry")
    /\ \E outcome \in LoadOutcomes :
          IF outcome = "ok"
          THEN /\ dbs' = Replaced(tables_to_load[load.k][2],
                                  RawRecords(tables_to_load[load.k][2]))
               /\ built' = built \cup {tables_to_load[load.k][2]}
               /\ load' = [load EXCEPT !.trace = @ \o <<"Retrying", "Success">>,
                                       !.read = Append(@, FixedName(tables_to_load[load.k][1]))]
               /\ proc' = [proc EXCEPT !.pc = AfterLoad]
               /\ UNCHANGED runs
          ELSE /\ proc' = NoProc
               /\ load' = [load EXCEPT !.trace = @ \o <<"Retrying", "Fatal">>,
                                       !.read = Append(@, FixedName(tables_to_load[load.k][1]))]
               /\ runs' = Finished(1, con)
               /\ UNCHANGED <<dbs, built>>
    /\ UNCHANGED <<exports, orch, invocations, con, faults, logs, docs>>

\* main(): con.close(); print("Bronze layer finished.")
BronzeClose ==
    /\ InBronze("close")
    /\ con' = [con EXCEPT !.state = "closed"]
    /\ proc' = NoProc
    /\ runs' = Finished(0, con')
    /\ UNCHANGED <<exports, orch, invocations, dbs, faults, load, logs, built, docs>>

(***************************************************************************)
(* Relational helpers.  A table is a sequence of rows (records); the order *)
(* of the rows carries no meaning.                                         *)
(***************************************************************************)
MapSeq(s, F(_)) == [n \in DOMAIN s |-> F(s[n])]

\* L LEFT JOIN R ON On(l, r): each match of a left row, or the left row once
\* with the right side all NULL (nullRow) when nothing matches
LeftJoin(L, R, On(_, _), Comb(_, _), nullRow) ==
    Flatten([n \in DOMAIN L |->
        LET m == SelectSeq(R, LAMBDA r : On(L[n], r))
        IN  IF m = <<>> THEN << Comb(L[n], nullRow) >>
            ELSE [k \in DOMAIN m |-> Comb(L[n], m[k])]])

HasCastError(rows) ==
    \E n \in DOMAIN rows : \E c \in DOMAIN rows[n] : rows[n][c] = CastError

\* one line of a stage's log file (and of the console)
LogLine(kind, subject, a, b, c) ==
    [kind |-> kind, subject |-> subject, a |-> a, b |-> b, c |-> c]
Msg(kind, subject) == LogLine(kind, subject, 0, 0, 0)

(***************************************************************************)
(* silver_load_clean.py: the SELECT of each builder                        *)
(***************************************************************************)
silver_customers_unfiltered(bronze) ==
    MapSeq(bronze,
           LAMBDA bc : [CustomerId |-> CastBigint(bc.CustomerId),
                        Name |-> CastVarchar(bc.Name),
                        City |-> CastVarchar(bc.City),
                        Country |-> CastVarchar(bc.Country)])

silver_customers(bronze) ==
    MapSeq(SelectSeq(bronze, LAMBDA bc : ~IsNull(bc.CustomerId)),
           LAMBDA bc : [CustomerId |-> CastBigint(bc.CustomerId),
                        Name |-> CastVarchar(bc.Name),
                        City |-> CastVarchar(bc.City),
                        Country |-> CastVarchar(bc.Country)])

silver_products(bronze) ==
    MapSeq(SelectSeq(bronze, LAMBDA bp : ~IsNull(bp.ProductId)),
           LAMBDA bp : [ProductId |-> CastBigint(bp.ProductId),
                        Name |-> CastVarchar(bp.Name),
                        ManufacturedCountry |-> CastVarchar(bp.ManufacturedCountry),
                        WeightGrams |-> CastDouble(bp.WeightGrams)])

silver_orders(bronze) ==
    MapSeq(SelectSeq(bronze, LAMBDA bo : ~IsNull(bo.OrderId)),
           LAMBDA bo : [OrderId |-> CastBigint(bo.OrderId),
                        CustomerId |-> CastBigint(bo.CustomerId),
                        Date |-> CastDate(bo.Date)])

silver_sales(bronze) ==
    MapSeq(SelectSeq(bronze, LAMBDA bs : ~IsNull(bs.SaleId)),
           LAMBDA bs : [SaleId |-> CastBigint(bs.SaleId),
                        OrderId |-> CastBigint(bs.OrderId),
                        ProductId |-> CastBigint(bs.ProductId),
                        Quantity |-> CastDouble(bs.Quantity)])

silver_countries(bronze) ==
    MapSeq(SelectSeq(bronze, LAMBDA bc : ~IsNull(bc.Country)),
           LAMBDA bc : [Country |-> CastVarchar(bc.Country),
                        Currency |-> CastVarchar(bc.Currency),
                        GDPPerCapita |-> CastBigint(bc.GDP_per_capita)])

NullOrder == [OrderId |-> NULL, CustomerId |-> NULL, Date |-> NULL]
NullCustomer == [CustomerId |-> NULL, Name |-> NULL, City |-> NULL, Country |-> NULL]
NullProduct ==
    [ProductId |-> NULL, Name |-> NULL, ManufacturedCountry |-> NULL, WeightGrams |-> NULL]
NullCountry == [Country |-> NULL, Currency |-> NULL, GDPPerCapita |-> NULL]

FactJoinInner(sales, orders, customers, products, countries) ==
    LET j0 == MapSeq(sales, LAMBDA r : [ss |-> r])
        j1 == SelectSeq(LeftJoin(j0, orders,
                                 LAMBDA l, so : SqlEq(l.ss.OrderId, so.OrderId),
                                 LAMBDA l, so : [ss |-> l.ss, so |-> so], NullOrder),
                        LAMBDA j : ~IsNull(j.so.OrderId))
        j2 == LeftJoin(j1, customers,
                       LAMBDA l, sc : SqlEq(l.so.CustomerId, sc.CustomerId),
                       LAMBDA l, sc : [ss |-> l.ss, so |-> l.so, sc |-> sc], NullCustomer)
        j3 == LeftJoin(j2, products,
                       LAMBDA l, sp : SqlEq(l.ss.ProductId, sp.ProductId),
                       LAMBDA l, sp : [ss |-> l.ss, so |-> l.so, sc |-> l.sc, sp |-> sp],
                       NullProduct)
    IN  LeftJoin(j3, countries,
                 LAMBDA l, c : SqlEq(l.sc.Country, c.Country),
                 LAMBDA l, c : [ss |-> l.ss, so |-> l.so, sc |-> l.sc, sp |-> l.sp, c |-> c],
                 NullCountry)

\* FROM silver_sales ss LEFT JOIN silver_orders so ... LEFT JOIN silver_countries c
FactJoin(sales, orders, customers, products, countries) ==
    LET j0 == MapSeq(sales, LAMBDA r : [ss |-> r])
        j1 == LeftJoin(j0, orders,
                       LAMBDA l, so : SqlEq(l.ss.OrderId, so.OrderId),
                       LAMBDA l, so : [ss |-> l.ss, so |-> so], NullOrder)
        j2 == LeftJoin(j1, customers,
                       LAMBDA l, sc : SqlEq(l.so.CustomerId, sc.CustomerId),
                       LAMBDA l, sc : [ss |-> l.ss, so |-> l.so, sc |-> sc], NullCustomer)
        j3 == LeftJoin(j2, products,
                       LAMBDA l, sp : SqlEq(l.ss.ProductId, sp.ProductId),
                       LAMBDA l, sp : [ss |-> l.ss, so |-> l.so, sc |-> l.sc, sp |-> sp],
                       NullProduct)
    IN  LeftJoin(j3, countries,
                 LAMBDA l, c : SqlEq(l.sc.Country, c.Country),
                 LAMBDA l, c : [ss |-> l.ss, so |-> l.so, sc |-> l.sc, sp |-> l.sp, c |-> c],
                 NullCountry)

silver_fact_sales(sales, orders, customers, products, countries) ==
    MapSeq(FactJoin(sales, orders, customers, products, countries),
           LAMBDA j : [SaleId |-> j.ss.SaleId,
                       Quantity |-> j.ss.Quantity,
                       OrderId |-> j.so.OrderId,
                       OrderDate |-> j.so.Date,
                       CustomerId |-> j.sc.CustomerId,
                       CustomerName |-> j.sc.Name,
                       CustomerCountry |-> j.sc.Country,
                       CustomerCity |-> j.sc.City,
                       ProductId |-> j.sp.ProductId,
                       ProductName |-> j.sp.Name,
                       ProductCountry |-> j.sp.ManufacturedCountry,
                       CountryCurrency |-> j.c.Currency,
                       CountryGDPPerCapita |-> j.c.GDPPerCapita])

\* run_quality_checks: SELECT COUNT(*) FROM l LEFT JOIN r ON ... WHERE r.<id> IS NULL
missing_customers(orders, customers) ==
    Len(SelectSeq(LeftJoin(orders, customers,
                           LAMBDA o, c : SqlEq(o.CustomerId, c.CustomerId),
                           LAMBDA o, c : [o |-> o, c |-> c], NullCustomer),
                  LAMBDA j : IsNull(j.c.CustomerId)))

missing_orders_null_key(sales, orders) ==
    Len(SelectSeq(sales, LAMBDA s : IsNull(s.OrderId)))

missing_orders(sales, orders) ==
    Len(SelectSeq(LeftJoin(sales, orders,
                           LAMBDA s, o : SqlEq(s.OrderId, o.OrderId),
                           LAMBDA s, o : [s |-> s, o |-> o], NullOrder),
                  LAMBDA j : IsNull(j.o.OrderId)))

missing_products(sales, products) ==
    Len(SelectSeq(LeftJoin(sales, products,
                           LAMBDA s, p : SqlEq(s.ProductId, p.ProductId),
                           LAMBDA s, p : [s |-> s, p |-> p], NullProduct),
                  LAMBDA j : IsNull(j.p.ProductId)))

\* log_bronze_vs_silver: the datasets in ORDER BY dataset order
RowcheckDatasets == << "countries", "customers", "orders", "products", "sales" >>

\* diff = silver_count - bronze_count
RowcheckDiff(bronze_count, silver_count) == silver_count - bronze_count

RowcheckLine(dataset, bronze_count, silver_count) ==
    LogLine("ROWCHECK", dataset, bronze_count, silver_count,
            RowcheckDiff(bronze_count, silver_count))

(***************************************************************************)
(* silver_load_clean.py: main() and its steps                              *)
(***************************************************************************)
InSilver(pc) == proc.script = "silver_load_clean.py" /\ proc.pc = pc

\* the log files before any run; step01_bronze_load.py defines no LOG_PATH
\* and no log(): it only prints "Loading <file> -> <table>", so the
\* ingestion stage's log file is never written
NoLogs == [bronze |-> <<>>, silver |-> <<>>, gold |-> <<>>]

Logged(stage, lines) == [logs EXCEPT ![stage] = @ \o lines]

\* the open connection's tables: whether t exists, and its rows
Exists(t) == dbs[con.file].tables[t] # NoTable
T(t) == dbs[con.file].tables[t].rows

\* main(): log("Starting Silver pipeline..."); con = duckdb.connect(str(DB_PATH))
SilverConnect ==
    /\ InSilver("main")
    /\ logs' = Logged("silver", << Msg("Starting", "silver") >>)
    /\ con' = [state |-> "open", file |-> SilverDbPath]
    /\ dbs' = Connected(SilverDbPath)
    /\ proc' = [proc EXCEPT !.pc = "customers"]
    /\ UNCHANGED <<exports, orch, runs, invocations, faults, load, built, docs>>

\* One builder create_silver_<x>(con) inside main()'s try: log("Creating ..."),
\* the CREATE OR REPLACE TABLE, log_row_count.  A missing source table
\* (Catalog Error) or a refused cast (Conversion Error) raises out of the
\* builder; main()'s finally closes the connection and logs the last line.
SilverBuild(pc, next, target, sources, rows) ==
    /\ InSilver(pc)
    /\ IF (\A t \in sources : Exists(t)) /\ ~HasCastError(rows)
       THEN /\ dbs' = Replaced(target, rows)
            /\ built' = built \cup {target}
            /\ logs' = Logged("silver", << Msg("Creating", target),
                                           LogLine("Row count", target, Len(rows), 0, 0) >>)
            /\ proc' = [proc EXCEPT !.pc = next]
            /\ UNCHANGED <<con, runs>>
       ELSE /\ logs' = Logged("silver", << Msg("Creating", target),
                                           Msg("Silver pipeline finished!", "silver") >>)
            /\ con' = [con EXCEPT !.state = "closed"]
            /\ proc' = NoProc
            /\ runs' = Finished(1, con')
            /\ UNCHANGED <<dbs, built>>
    /\ UNCHANGED <<exports, orch, invocations, faults, load, docs>>

create_silver_customers ==
    SilverBuild("customers", "products", "silver_customers", {"bronze_customers"},
                silver_customers(T("bronze_customers")))

create_silver_products ==
    SilverBuild("products", "orders", "silver_products", {"bronze_products"},
                silver_products(T("bronze_products")))

create_silver_orders ==
    SilverBuild("orders", "sales", "silver_orders", {"bronze_orders"},
                silver_orders(T("bronze_orders")))

create_silver_sales ==
    SilverBuild("sales", "countries", "silver_sales", {"bronze_sales"},
                silver_sales(T("bronze_sales")))

create_silver_countries ==
    SilverBuild("countries", "fact", "silver_countries", {"bronze_countries"},
                silver_countries(T("bronze_countries")))

create_silver_fact_sales ==
    SilverBuild("fact", "quality", "silver_fact_sales",
                {"silver_sales", "silver_orders", "silver_customers", "silver_products",
                 "silver_countries"},
                silver_fact_sales(T("silver_sales"), T("silver_orders"),
                                  T("silver_customers"), T("silver_products"),
                                  T("silver_countries")))

\* run_quality_checks(con): three counts, logged and not stored
run_quality_checks ==
    /\ InSilver("quality")
    /\ logs' = Logged("silver",
          << Msg("Running simple data quality checks...", "silver"),
             LogLine("Orders with missing customers", "silver_orders",
                     missing_customers(T("silver_orders"), T("silver_customers")), 0, 0),
             LogLine("Sales with missing orders", "silver_sales",
                     missing_orders(T("silver_sales"), T("silver_orders")), 0, 0),
             LogLine("Sales with missing products", "silver_sales",
                     missing_products(T("silver_sales"), T("silver_products")), 0, 0) >>)
    /\ proc' = [proc EXCEPT !.pc = "rowcheck"]
    /\ UNCHANGED <<exports, orch, runs, invocations, con, dbs, faults, load, built, docs>>

\* log_bronze_vs_silver(con), then main()'s finally: con.close(); log(...)
log_bronze_vs_silver ==
    /\ InSilver("rowcheck")
    /\ logs' = Logged("silver",
          << Msg("Comparing Bronze vs Silver row counts...", "silver") >>
          \o [n \in DOMAIN RowcheckDatasets |->
                RowcheckLine(RowcheckDatasets[n],
                             Len(T("bronze_" \o RowcheckDatasets[n])),
                             Len(T("silver_" \o RowcheckDatasets[n])))]
          \o << Msg("Silver pipeline finished!", "silver") >>)
    /\ con' = [con EXCEPT !.state = "closed"]
    /\ proc' = NoProc
    /\ runs' = Finished(0, con')
    /\ UNCHANGED <<exports, orch, invocations, dbs, faults, load, built, docs>>

(***************************************************************************)
(* Dates.  A DATE is its day number; the calendar attributes are computed  *)
(* from it the way the engine's STRFTIME and EXTRACT do (proleptic         *)
(* Gregorian calendar).                                                    *)
(***************************************************************************)
Civil(day) ==
    LET z == day + 719468
        era == z \div 146097
        doe == z - era * 146097
        yoe == (doe - doe \div 1460 + doe \div 36524 - doe \div 146096) \div 365
        doy == doe - (365 * yoe + yoe \div 4 - yoe \div 100)
        mp == (5 * doy + 2) \div 153
        d == doy - (153 * mp + 2) \div 5 + 1
        m == IF mp < 10 THEN mp + 3 ELSE mp - 9
        y == yoe + era * 400 + (IF m <= 2 THEN 1 ELSE 0)
    IN  [year |-> y, month |-> m, day |-> d]

\* CAST(STRFTIME(Date, '%Y%m%d') AS INTEGER)
DateKeyOf(day) == Civil(day).year * 10000 + Civil(day).month * 100 + Civil(day).day

\* EXTRACT(DOW FROM Date): Sunday = 0 (1970-01-01 was a Thursday)
DayOfWeek(day) == (day + 4) % 7

RECURSIVE GenerateSeriesExclusive(_, _)
GenerateSeriesExclusive(start, stop) ==
    IF start >= stop THEN <<>> ELSE <<start>> \o GenerateSeriesExclusive(start + 1, stop)

\* GENERATE_SERIES(start, stop, INTERVAL 1 DAY): start, start + 1, ... while <= stop
RECURSIVE GenerateSeries(_, _)
GenerateSeries(start, stop) ==
    IF start > stop THEN <<>> ELSE <<start>> \o GenerateSeries(start + 1, stop)

\* MIN(Date) / MAX(Date) over a table: NULLs are skipped, NULL when nothing is left
NonNullDates(orders) == {orders[n].Date.d : n \in {k \in DOMAIN orders : ~IsNull(orders[k].Date)}}
MinDate(orders) ==
    IF NonNullDates(orders) = {} THEN NULL
    ELSE DateV(CHOOSE a \in NonNullDates(orders) : \A b \in NonNullDates(orders) : a <= b)
MaxDate(orders) ==
    IF NonNullDates(orders) = {} THEN NULL
    ELSE DateV(CHOOSE a \in NonNullDates(orders) : \A b \in NonNullDates(orders) : a >= b)

CalendarDatesAfterFirst(min_date, max_date) ==
    IF IsNull(min_date) \/ IsNull(max_date) THEN <<>>
    ELSE GenerateSeries(min_date.d + 1, max_date.d)

\* the CTE "dates": UNNEST(GENERATE_SERIES(min_date, max_date, INTERVAL 1 DAY));
\* GENERATE_SERIES of a NULL bound is NULL and UNNEST(NULL) yields no row
CalendarDates(min_date, max_date) ==
    IF IsNull(min_date) \/ IsNull(max_date) THEN <<>>
    ELSE GenerateSeries(min_date.d, max_date.d)

(***************************************************************************)
(* step03_gold_load.py: the SELECT of each builder                         *)
(***************************************************************************)
gold_dim_customer(customers) ==
    MapSeq(SelectSeq(customers, LAMBDA c : ~IsNull(c.CustomerId)),
           LAMBDA c : [CustomerId |-> c.CustomerId, CustomerName |-> c.Name,
                       CustomerCity |-> c.City, CustomerCountry |-> c.Country])

gold_dim_product(products) ==
    MapSeq(SelectSeq(products, LAMBDA p : ~IsNull(p.ProductId)),
           LAMBDA p : [ProductId |-> p.ProductId, ProductName |-> p.Name,
                       ProductCountry |-> p.ManufacturedCountry,
                       WeightGrams |-> p.WeightGrams])

gold_dim_country(countries) ==
    MapSeq(SelectSeq(countries, LAMBDA c : ~IsNull(c.Country)),
           LAMBDA c : [Country |-> c.Country, Currency |-> c.Currency,
                       GDPPerCapita |-> c.GDPPerCapita])

gold_dim_date(orders) ==
    MapSeq(CalendarDates(MinDate(orders), MaxDate(orders)),
           LAMBDA day : [DateKey |-> IntV(DateKeyOf(day)),
                         Date |-> DateV(day),
                         Year |-> IntV(Civil(day).year),
                         Quarter |-> IntV((Civil(day).month + 2) \div 3),
                         Month |-> IntV(Civil(day).month),
                         YearMonth |-> IntV(Civil(day).year * 100 + Civil(day).month),
                         DayOfWeek |-> IntV(DayOfWeek(day)),
                         IsWeekend |-> DayOfWeek(day) \in {0, 6}])

NullDate ==
    [DateKey |-> NULL, Date |-> NULL, Year |-> NULL, Quarter |-> NULL, Month |-> NULL,
     YearMonth |-> NULL, DayOfWeek |-> NULL, IsWeekend |-> NULL]

TimesNullAsZero(a, b) ==
    DblV((IF IsNull(a) THEN 0 ELSE a.f) * (IF IsNull(b) THEN 0 ELSE b.f))

\* f.Quantity * p.WeightGrams: NULL when an operand is NULL
Times(a, b) == IF IsNull(a) \/ IsNull(b) THEN NULL ELSE DblV(a.f * b.f)

gold_fact_sales(fact, dates, products) ==
    LET j0 == MapSeq(fact, LAMBDA r : [f |-> r])
        j1 == LeftJoin(j0, dates,
                       LAMBDA l, d : SqlEq(l.f.OrderDate, d.Date),
                       LAMBDA l, d : [f |-> l.f, d |-> d], NullDate)
        j2 == LeftJoin(j1, products,
                       LAMBDA l, p : SqlEq(l.f.ProductId, p.ProductId),
                       LAMBDA l, p : [f |-> l.f, d |-> l.d, p |-> p], NullProduct)
    IN  MapSeq(j2, LAMBDA j : [SaleId |-> j.f.SaleId,
                               OrderId |-> j.f.OrderId,
                               DateKey |-> j.d.DateKey,
                               CustomerId |-> j.f.CustomerId,
                               ProductId |-> j.f.ProductId,
                               Country |-> j.f.CustomerCountry,
                               Quantity |-> j.f.Quantity,
                               WeightGrams |-> j.p.WeightGrams,
                               TotalWeightGrams |-> Times(j.f.Quantity, j.p.WeightGrams)])

(***************************************************************************)
(* step03_gold_load.py: main() and its steps                               *)
(***************************************************************************)
InGold(pc) == proc.script = "step03_gold_load.py" /\ proc.pc = pc

\* main(): log("starting ..."); if not DB_PATH.exists(): raise; duckdb.connect
GoldConnect ==
    /\ InGold("main")
    /\ logs' = Logged("gold", << Msg("starting gold pipeline", "gold") >>)
    /\ IF dbs[GoldDbPath].exists
       THEN /\ con' = [state |-> "open", file |-> GoldDbPath]
            /\ proc' = [proc EXCEPT !.pc = "dim_customer"]
            /\ UNCHANGED runs
       ELSE /\ proc' = NoProc
            /\ runs' = Finished(1, con)
            /\ UNCHANGED con
    /\ UNCHANGED <<exports, orch, invocations, dbs, faults, load, built, docs>>

\* One builder create_gold_<x>(con) inside main()'s try; after the last one
\* main() logs "gold pipeline finished."; the finally closes the connection
\* and logs "connection closed." on every way out.
GoldBuild(pc, next, target, sources, rows) ==
    /\ InGold(pc)
    /\ IF \A t \in sources : Exists(t)
       THEN /\ dbs' = Replaced(target, rows)
            /\ built' = built \cup {target}
            /\ IF next = "exit"
               THEN /\ logs' = Logged("gold",
                         << Msg("creating", target),
                            LogLine("row count", target, Len(rows), 0, 0),
                            Msg("gold pipeline finished.", "gold"),
                            Msg("connection closed.", "gold") >>)
                    /\ con' = [con EXCEPT !.state = "closed"]
                    /\ proc' = NoProc
                    /\ runs' = Finished(0, con')
               ELSE /\ logs' = Logged("gold",
                         << Msg("creating", target),
                            LogLine("row count", target, Len(rows), 0, 0) >>)
                    /\ proc' = [proc EXCEPT !.pc = next]
                    /\ UNCHANGED <<con, runs>>
       ELSE /\ logs' = Logged("gold", << Msg("creating", target),
                                         Msg("connection closed.", "gold") >>)
            /\ con' = [con EXCEPT !.state = "closed"]
            /\ proc' = NoProc
            /\ runs' = Finished(1, con')
            /\ UNCHANGED <<dbs, built>>
    /\ UNCHANGED <<exports, orch, invocations, faults, load, docs>>

create_gold_dim_customer ==
    GoldBuild("dim_customer", "dim_product", "gold_dim_customer", {"silver_customers"},
              gold_dim_customer(T("silver_customers")))

create_gold_dim_product ==
    GoldBuild("dim_product", "dim_country", "gold_dim_product", {"silver_products"},
              gold_dim_product(T("silver_products")))

create_gold_dim_country ==
    GoldBuild("dim_country", "dim_date", "gold_dim_country", {"silver_countries"},
              gold_dim_country(T("silver_countries")))

create_gold_dim_date ==
    GoldBuild("dim_date", "fact", "gold_dim_date", {"silver_orders"},
              gold_dim_date(T("silver_orders")))

create_gold_fact_sales ==
    GoldBuild("fact", "exit", "gold_fact_sales",
              {"silver_fact_sales", "gold_dim_date", "silver_products"},
              gold_fact_sales(T("silver_fact_sales"), T("gold_dim_date"),
                              T("silver_products")))

(***************************************************************************)
(* step04_export_medallion_layers.py                                       *)
(***************************************************************************)
InExport(pc) == proc.script = "step04_export_medallion_layers.py" /\ proc.pc = pc

\* the tables in the order main() dumps them
ExportList == BRONZE_TABLES \o SILVER_TABLES \o GOLD_TABLES

\* main(): ensure_dirs(); if not DB_PATH.exists(): raise; duckdb.connect
ExportConnect ==
    /\ InExport("main")
    /\ exports' = <<>>
    /\ IF dbs[ExportDbPath].exists
       THEN /\ con' = [state |-> "open", file |-> ExportDbPath]
            /\ proc' = [proc EXCEPT !.pc = "dump"]
            /\ UNCHANGED runs
       ELSE /\ proc' = NoProc
            /\ runs' = Finished(1, con)
            /\ UNCHANGED con
    /\ UNCHANGED <<orch, invocations, dbs, faults, load, logs, built, docs>>

\* one turn of "for t in tables", had the loop had no try/except
DumpTableRaises ==
    /\ InExport("dump")
    /\ Len(exports) < Len(ExportList)
    /\ LET t == ExportList[Len(exports) + 1]
       IN  \E failure \in {"none", "data", "meta"} :
              /\ failure # "none" => faults > 0
              /\ faults' = IF failure # "none" /\ Exists(t) THEN faults - 1 ELSE faults
              /\ exports' = Append(exports,
                    IF ~Exists(t)
                    THEN [table |-> t, data |-> FALSE, meta |-> FALSE, io |-> FALSE,
                          printed |-> "FAILED"]
                    ELSE [table |-> t, data |-> failure # "data",
                          meta |-> failure = "none", io |-> failure # "none",
                          printed |-> IF failure = "none" THEN "done" ELSE "FAILED"])
              /\ IF Exists(t) /\ failure = "none"
                 THEN UNCHANGED <<proc, runs, con>>
                 ELSE /\ con' = [con EXCEPT !.state = "closed"]
                      /\ proc' = NoProc
                      /\ runs' = Finished(1, con')
    /\ UNCHANGED <<orch, invocations, dbs, load, logs, built, docs>>

\* dump_table_set / dump_gold_tables: one turn of "for t in tables" with its
\* try/except: the data file, then the metadata sidecar, and " done [...]",
\* or " FAILED (...)" when the COPY (a missing table, an I/O error) or the
\* sidecar raises
DumpTable ==
    /\ InExport("dump")
    /\ Len(exports) < Len(ExportList)
    /\ LET t == ExportList[Len(exports) + 1]
       IN  \E failure \in {"none", "data", "meta"} :
              /\ failure # "none" => faults > 0
              /\ faults' = IF failure # "none" /\ Exists(t) THEN faults - 1 ELSE faults
              /\ exports' = Append(exports,
                    IF ~Exists(t)
                    THEN [table |-> t, data |-> FALSE, meta |-> FALSE, io |-> FALSE,
                          printed |-> "FAILED"]
                    ELSE [table |-> t, data |-> failure # "data",
                          meta |-> failure = "none", io |-> failure # "none",
                          printed |-> IF failure = "none" THEN "done" ELSE "FAILED"])
    /\ UNCHANGED <<orch, proc, runs, invocations, con, dbs, load, logs, built, docs>>

\* main(): print("All exports complete."); finally: con.close()
ExportClose ==
    /\ InExport("dump")
    /\ Len(exports) = Len(ExportList)
    /\ con' = [con EXCEPT !.state = "closed"]
    /\ proc' = NoProc
    /\ runs' = Finished(0, con')
    /\ UNCHANGED <<orch, invocations, dbs, faults, load, logs, built, exports, docs>>

(***************************************************************************)
(* Initial states and specifications.                                      *)
(***************************************************************************)
\* a database file holding the tier-1 tables b (table name -> rows)
WithBronze(b) ==
    [exists |-> TRUE, tables |-> [t \in TableNames |-> IF t \in DOMAIN b THEN Table(b[t]) ELSE NoTable]]

\* the conformed tables a conformance run builds from the tier-1 tables b
SilverOf(b) ==
    LET sc == silver_customers(b["bronze_customers"])
        sp == silver_products(b["bronze_products"])
        so == silver_orders(b["bronze_orders"])
        ss == silver_sales(b["bronze_sales"])
        c == silver_countries(b["bronze_countries"])
    IN  [t \in SilverNames |->
            CASE t = "silver_customers" -> sc
              [] t = "silver_products" -> sp
              [] t = "silver_orders" -> so
              [] t = "silver_sales" -> ss
              [] t = "silver_countries" -> c
              [] t = "silver_fact_sales" -> silver_fact_sales(ss, so, sc, sp, c)]

\* a database file holding the tier-1 tables b and the conformed tables built from them
WithSilver(b) ==
    [exists |-> TRUE,
     tables |-> [t \in TableNames |->
                    IF t \in DOMAIN b THEN Table(b[t])
                    ELSE IF t \in SilverNames THEN Table(SilverOf(b)[t])
                    ELSE NoTable]]

NoDb == [exists |-> FALSE, tables |-> NoTables]

\* the raw documents' records as tier-1 tables
SampleBronze == [t \in BronzeNames |-> RawRecords(t)]

InitControl ==
    /\ orch = [pc |-> "none", i |-> 0, started |-> <<>>, codes |-> <<>>]
    /\ proc = NoProc
    /\ runs = <<>>
    /\ invocations = 0
    /\ con = NoCon
    /\ faults = 0
    /\ load = NoLoad
    /\ logs = NoLogs
    /\ built = {}
    /\ exports = <<>>
    /\ docs = SampleDocs

\* database files left by earlier work: tier-1 tables in the project-root
\* file, tier-1 and conformed tables in the src file
Populated(b) ==
    [f \in DbFiles |-> IF f = SilverDbPath THEN WithBronze(b) ELSE WithSilver(b)]

\* a fresh checkout (no database file yet), or database files left by earlier work
Init ==
    /\ InitControl
    /\ dbs \in {[f \in DbFiles |-> NoDb], Populated(SampleBronze)}

Next ==
    \/ ShellRunAll
    \/ ShellRunStage
    \/ MainLoop
    \/ CheckCallReturn
    \/ BronzeConnect
    \/ LoadCheckFile
    \/ LoadStrict
    \/ LoadRepair
    \/ LoadRetry
    \/ BronzeClose
    \/ SilverConnect
    \/ create_silver_customers
    \/ create_silver_products
    \/ create_silver_orders
    \/ create_silver_sales
    \/ create_silver_countries
    \/ create_silver_fact_sales
    \/ run_quality_checks
    \/ log_bronze_vs_silver
    \/ GoldConnect
    \/ create_gold_dim_customer
    \/ create_gold_dim_product
    \/ create_gold_dim_country
    \/ create_gold_dim_date
    \/ create_gold_fact_sales
    \/ ExportConnect
    \/ DumpTable
    \/ ExportClose

Spec == Init /\ [][Next]_vars

(***************************************************************************)
(* The conformance stage on its own, over bounded tier-1 tables.           *)
(***************************************************************************)
\* the tables of at most MaxRows rows drawn (with repetition) from the rows dom
IndexSeqs(d) ==
    UNION {{ix \in [1..n -> 1..d] : \A a \in 1..(n - 1) : ix[a] <= ix[a + 1]} : n \in 0..MaxRows}
TablesOver(dom) == {[n \in DOMAIN ix |-> dom[ix[n]]] : ix \in IndexSeqs(Len(dom))}

CustomerDom ==
    << BronzeCustomer(IntV(1), TxtV("Norway")),
       BronzeCustomer(IntV(2), TxtV("Chile")),
       BronzeCustomer(NULL, TxtV("Norway")) >>
\* a customers document whose CustomerId is text
CustomerDomText ==
    << BronzeCustomer(TxtV("1"), TxtV("Norway")),
       BronzeCustomer(TxtV("x"), TxtV("Norway")),
       BronzeCustomer(NULL, TxtV("Norway")) >>
ProductDom ==
    << BronzeProduct(IntV(1), IntV(2)),
       BronzeProduct(IntV(2), NULL),
       BronzeProduct(NULL, IntV(3)) >>
OrderDom ==
    << BronzeOrder(IntV(1), IntV(1), DateV(BaseDay)),
       BronzeOrder(IntV(2), NULL, NULL),
       BronzeOrder(NULL, IntV(1), DateV(BaseDay + 1)) >>
SaleDom ==
    << BronzeSale(IntV(1), IntV(1), IntV(1), IntV(2)),
       BronzeSale(IntV(2), IntV(2), IntV(2), NULL),
       BronzeSale(IntV(3), NULL, NULL, IntV(2)),
       BronzeSale(NULL, IntV(1), IntV(1), IntV(1)) >>
CountryDom ==
    << BronzeCountry(TxtV("Norway")), BronzeCountry(NULL) >>

BronzeTables(c, p, o, s, k) ==
    [t \in BronzeNames |->
        CASE t = "bronze_customers" -> c
          [] t = "bronze_products" -> p
          [] t = "bronze_orders" -> o
          [] t = "bronze_sales" -> s
          [] t = "bronze_countries" -> k]

\* the database files when the project-root file holds the tier-1 tables b
SilverInput(b) == [f \in DbFiles |-> IF f = SilverDbPath THEN WithBronze(b) ELSE NoDb]

\* the shell has started silver_load_clean.py on a project-root database file
\* that holds tier-1 tables: the sales -> orders -> customers -> countries
\* chain varied together, the sales -> products join varied with the orders,
\* and a customers document with text identifiers
InitSilver ==
    /\ orch = [pc |-> "none", i |-> 0, started |-> <<>>, codes |-> <<>>]
    /\ proc = Started("silver_load_clean.py", "shell")
    /\ runs = <<>>
    /\ invocations = 1
    /\ con = NoCon
    /\ faults = 0
    /\ load = NoLoad
    /\ logs = NoLogs
    /\ built = {}
    /\ exports = <<>>
    /\ docs = SampleDocs
    /\ \/ \E c \in TablesOver(CustomerDom), o \in TablesOver(OrderDom),
              s \in TablesOver(SaleDom), k \in TablesOver(CountryDom) :
                dbs = SilverInput(BronzeTables(c, RawRecords("bronze_products"), o, s, k))
       \/ \E p \in TablesOver(ProductDom), o \in TablesOver(OrderDom),
              s \in TablesOver(SaleDom) :
                dbs = SilverInput(BronzeTables(RawRecords("bronze_customers"), p, o, s,
                                               RawRecords("bronze_countries")))
       \/ \E c \in TablesOver(CustomerDomText) :
                dbs = SilverInput(BronzeTables(c, RawRecords("bronze_products"),
                                               RawRecords("bronze_orders"),
                                               RawRecords("bronze_sales"),
                                               RawRecords("bronze_countries")))

NextSilver ==
    \/ SilverConnect
    \/ create_silver_customers
    \/ create_silver_products
    \/ create_silver_orders
    \/ create_silver_sales
    \/ create_silver_countries
    \/ create_silver_fact_sales
    \/ run_quality_checks
    \/ log_bronze_vs_silver

SpecSilver == InitSilver /\ [][NextSilver]_vars

(***************************************************************************)
(* The modeling stage on its own, over the conformed tables a conformance  *)
(* run builds from bounded tier-1 tables.                                  *)
(***************************************************************************)
OrderDomGold ==
    << BronzeOrder(IntV(1), IntV(1), DateV(BaseDay)),
       BronzeOrder(IntV(2), IntV(1), DateV(BaseDay + 2)),
       BronzeOrder(IntV(3), IntV(1), NULL) >>
SaleDomGold ==
    << BronzeSale(IntV(1), IntV(1), IntV(1), IntV(2)),
       BronzeSale(IntV(2), IntV(2), IntV(1), NULL),
       BronzeSale(IntV(3), IntV(3), IntV(2), IntV(1)),
       BronzeSale(IntV(4), NULL, NULL, IntV(2)) >>
ProductDomGold ==
    << BronzeProduct(IntV(1), IntV(2)),
       BronzeProduct(IntV(1), IntV(3)),
       BronzeProduct(IntV(2), NULL) >>

\* the database files when the src file holds the conformed tables built from b
GoldInput(b) == [f \in DbFiles |-> IF f = GoldDbPath THEN WithSilver(b) ELSE NoDb]

\* the shell has started step03_gold_load.py on a src database file that
\* holds conformed tables, or all but one of them
InitGold ==
    /\ orch = [pc |-> "none", i |-> 0, started |-> <<>>, codes |-> <<>>]
    /\ proc = Started("step03_gold_load.py", "shell")
    /\ runs = <<>>
    /\ invocations = 1
    /\ con = NoCon
    /\ faults = 0
    /\ load = NoLoad
    /\ logs = NoLogs
    /\ built = {}
    /\ exports = <<>>
    /\ docs = SampleDocs
    /\ \/ \E p \in TablesOver(ProductDomGold), o \in TablesOver(OrderDomGold),
              s \in TablesOver(SaleDomGold) :
                dbs = GoldInput(BronzeTables(RawRecords("bronze_customers"), p, o, s,
                                             RawRecords("bronze_countries")))
       \/ \E t \in SilverNames :
                dbs = [GoldInput(SampleBronze) EXCEPT ![GoldDbPath].tables[t] = NoTable]

NextGold ==
    \/ GoldConnect
    \/ create_gold_dim_customer
    \/ create_gold_dim_product
    \/ create_gold_dim_country
    \/ create_gold_dim_date
    \/ create_gold_fact_sales

SpecGold == InitGold /\ [][NextGold]_vars

(***************************************************************************)
(* The export stage on its own: on no database file, on an empty one, on   *)
(* one without the dimensional tables and on a complete one, with up to    *)
(* MaxFaults I/O failures.                                                 *)
(***************************************************************************)
\* the database files after a modeling run on the src file with tables b
WithGold(b) ==
    LET silver == SilverOf(b)
        dates == gold_dim_date(silver["silver_orders"])
    IN  [exists |-> TRUE,
         tables |-> [t \in TableNames |->
            CASE t \in DOMAIN b -> Table(b[t])
              [] t \in SilverNames -> Table(silver[t])
              [] t = "gold_dim_customer" -> Table(gold_dim_customer(silver["silver_customers"]))
              [] t = "gold_dim_product" -> Table(gold_dim_product(silver["silver_products"]))
              [] t = "gold_dim_country" -> Table(gold_dim_country(silver["silver_countries"]))
              [] t = "gold_dim_date" -> Table(dates)
              [] t = "gold_fact_sales" ->
                    Table(gold_fact_sales(silver["silver_fact_sales"], dates,
                                          silver["silver_products"]))]]

InitExport ==
    /\ orch = [pc |-> "none", i |-> 0, started |-> <<>>, codes |-> <<>>]
    /\ proc = Started("step04_export_medallion_layers.py", "shell")
    /\ runs = <<>>
    /\ invocations = 1
    /\ con = NoCon
    /\ faults \in 0..MaxFaults
    /\ load = NoLoad
    /\ logs = NoLogs
    /\ built = {}
    /\ exports = <<>>
    /\ docs = SampleDocs
    /\ \E db \in {NoDb, [exists |-> TRUE, tables |-> NoTables], WithSilver(SampleBronze),
                   WithGold(SampleBronze)} :
          dbs = [f \in DbFiles |-> IF f = ExportDbPath THEN db ELSE NoDb]

NextExport ==
    \/ ExportConnect
    \/ DumpTable
    \/ ExportClose

SpecExport == InitExport /\ [][NextExport]_vars

(***************************************************************************)
(* fix_to_ndjson on its own: every document of at most MaxChars            *)
(* characters, repaired, and the repaired document repaired again.         *)
(***************************************************************************)
Documents == UNION {[1..n -> Chars] : n \in 0..MaxChars}

InitFix ==
    /\ orch = [pc |-> "none", i |-> 0, started |-> <<>>, codes |-> <<>>]
    /\ proc = NoProc
    /\ runs = <<>>
    /\ invocations = 0
    /\ con = NoCon
    /\ faults = 0
    /\ load = NoLoad
    /\ logs = NoLogs
    /\ built = {}
    /\ exports = <<>>
    /\ dbs = [f \in DbFiles |-> NoDb]
    /\ \E content \in Documents : docs = [f \in {"customers.json"} |-> content]

NextFix == FixCall

SpecFix == InitFix /\ [][NextFix]_vars

(***************************************************************************)
(* Properties.                                                             *)
(***************************************************************************)
Last(q) == q[Len(q)]
Count(q, x) == Cardinality({n \in DOMAIN q : q[n] = x})
CoreScripts == {"step01_bronze_load.py", "silver_load_clean.py", "step03_gold_load.py"}

\* C1: in an orchestrator run the stages started are, in order, the first
\* entries of PIPELINE_STEPS with none skipped; every stage but the first is
\* started only after check_call returned exit code 0 for the one before it;
\* and after a failure (a non-zero exit code or a script not found) the run
\* has raised with no stage running and no stage started past the failure.
C1_StagesInOrderHaltOnFailure ==
    /\ Len(orch.started) <= Len(PIPELINE_STEPS)
    /\ \A j \in DOMAIN orch.started :
          /\ orch.started[j] = PIPELINE_STEPS[j]
          /\ j > 1 => (Len(orch.codes) >= j - 1 /\ orch.codes[j - 1] = 0)
    /\ \A j \in DOMAIN orch.codes : orch.codes[j] # 0 => j = Len(orch.started)
    /\ (\E j \in DOMAIN orch.codes : orch.codes[j] # 0) => orch.pc = "raised"
    /\ orch.pc = "raised" => Len(orch.started) <= orch.i
    /\ (proc.script # "none" /\ proc.by = "orch") =>
          (orch.pc = "wait" /\ proc.script = Last(orch.started))

\* a stage run by the orchestrator exited non-zero and the run halted there
C1_Witness ==
    /\ orch.pc = "raised"
    /\ orch.started = << "step01_bronze_load.py" >>
    /\ orch.codes = << 1 >>

\* C2: an orchestrator run in which every invoked stage succeeded has started
\* the four stages, once each and in order, and ended with the final message.
C2_AllStagesRunWhenEachSucceeds ==
    (orch.pc \in {"done", "raised"} /\ \A j \in DOMAIN orch.codes : orch.codes[j] = 0) =>
        /\ orch.pc = "done"
        /\ Len(orch.started) = Len(PIPELINE_STEPS)
        /\ orch.codes = << 0, 0, 0, 0 >>

\* C3: the conformance stage opens the file the ingestion stage wrote, so right
\* after a successful ingestion it finds every tier-1 table; the modeling stage
\* opens the file the conformance stage wrote, so right after a successful
\* conformance it finds every conformed table.
C3_StagesShareOneDatabaseFile ==
    /\ (/\ proc.script = "silver_load_clean.py"
        /\ con.state = "open"
        /\ runs # <<>>
        /\ Last(runs).script = "step01_bronze_load.py"
        /\ Last(runs).rc = 0)
       => (con.file = BronzeDbPath /\ \A t \in BronzeNames : Exists(t))
    /\ (/\ proc.script = "step03_gold_load.py"
        /\ con.state = "open"
        /\ runs # <<>>
        /\ Last(runs).script = "silver_load_clean.py"
        /\ Last(runs).rc = 0)
       => (con.file = SilverDbPath /\ \A t \in SilverNames : Exists(t))

\* the traces of one load_bronze_table call
LoadTraces ==
    { << "Missing" >>,
      << "Attempting", "Success" >>,
      << "Attempting", "Fatal" >>,
      << "Attempting", "Malformed", "Repairing", "Retrying", "Success" >>,
      << "Attempting", "Malformed", "Repairing", "Retrying", "Fatal" >> }
IsPrefix(p, q) == Len(p) <= Len(q) /\ \A n \in DOMAIN p : p[n] = q[n]
LoadEnded == load.trace # <<>> /\ Last(load.trace) \in {"Success", "Fatal", "Missing"}

C5_FatalLoadAbortsIngestion ==
    (load.trace # <<>> /\ Last(load.trace) \in {"Fatal", "Missing"}) =>
        /\ proc.script = "none"
        /\ Last(runs).script = "step01_bronze_load.py"
        /\ Last(runs).rc = 1
        /\ built = {tables_to_load[j][2] : j \in 1..(load.k - 1)}
        /\ Last(load.trace) = "Missing" => (load.read = <<>> /\ load.trace = << "Missing" >>)

\* the third document is missing after two tables were loaded
C5_Witness ==
    /\ load.k = 3
    /\ load.trace = << "Missing" >>
    /\ built = {"bronze_customers", "bronze_products"}
    /\ proc.script = "none"

\* C6: every core stage that has ended, with whatever exit code, ended with
\* its database connection closed (or never opened).
C6_ConnectionClosedAtStageEnd ==
    \A j \in DOMAIN runs :
        runs[j].script \in CoreScripts => runs[j].con # "open"

\* the conformance run has ended with exit code 0
SilverSucceeded ==
    /\ runs # <<>>
    /\ Last(runs).script = "silver_load_clean.py"
    /\ Last(runs).rc = 0

\* the primary identifier of each of the five entities
KeyOf(dataset) ==
    CASE dataset = "customers" -> "CustomerId"
      [] dataset = "products" -> "ProductId"
      [] dataset = "orders" -> "OrderId"
      [] dataset = "sales" -> "SaleId"
      [] dataset = "countries" -> "Country"
KeyCast(dataset, v) == IF dataset = "countries" THEN CastVarchar(v) ELSE CastBigint(v)
Tier1(dataset) == Rows(SilverDbPath, "bronze_" \o dataset)
Conformed(dataset) == Rows(SilverDbPath, "silver_" \o dataset)
NullKeyRows(dataset) ==
    Cardinality({n \in DOMAIN Tier1(dataset) : IsNull(Tier1(dataset)[n][KeyOf(dataset)])})

\* the conformed table holds the tier-1 rows with a non-null identifier, one
\* for one and in their order, and the row check logged `logged` as difference
ConformedKeepsNonNull(dataset, logged) ==
    LET key == KeyOf(dataset)
        kept == SelectSeq(Tier1(dataset), LAMBDA r : ~IsNull(r[key]))
        S == Conformed(dataset)
    IN  /\ Len(S) = Len(Tier1(dataset)) - NullKeyRows(dataset)
        /\ Len(S) <= Len(Tier1(dataset))
        /\ NullKeyRows(dataset) = 0 => Len(S) = Len(Tier1(dataset))
        /\ \A n \in DOMAIN S : ~IsNull(S[n][key])
        /\ Len(S) = Len(kept)
        /\ \A n \in DOMAIN S : S[n][key] = KeyCast(dataset, kept[n][key])
        /\ \E n \in DOMAIN logs.silver :
              logs.silver[n] = LogLine("ROWCHECK", dataset, Len(Tier1(dataset)), Len(S), logged)

\* C7 (amended): after a successful conformance run each of the five conformed
\* tables holds exactly the tier-1 rows whose identifier is non-null (no more
\* rows than tier 1, as many when tier 1 has no null identifier, no null
\* identifier left), and the logged difference, conformed count minus tier-1
\* count, is minus the number of null-identifier rows.
C7_ConformedDropsNullIdsDiffNegative ==
    SilverSucceeded =>
        \A n \in DOMAIN RowcheckDatasets :
            ConformedKeepsNonNull(RowcheckDatasets[n], 0 - NullKeyRows(RowcheckDatasets[n]))

\* a successful run over customers with one null identifier among two rows
C7_Witness ==
    /\ SilverSucceeded
    /\ Len(Tier1("customers")) = 2
    /\ NullKeyRows("customers") = 1
    /\ Len(Conformed("customers")) = 1
    /\ \E n \in DOMAIN logs.silver :
          logs.silver[n] = LogLine("ROWCHECK", "customers", 2, 1, 0 - 1)

\* C7 as stated: the same, with the logged difference equal to the number of
\* null-identifier rows.
C7_LoggedDiffIsNullIdCount ==
    SilverSucceeded =>
        \A n \in DOMAIN RowcheckDatasets :
            ConformedKeepsNonNull(RowcheckDatasets[n], NullKeyRows(RowcheckDatasets[n]))

\* no two rows of the table agree on the column
UniqueKey(rows, column) ==
    \A a, b \in DOMAIN rows : a # b => rows[a][column] # rows[b][column]
UniqueDimensionKeys ==
    /\ UniqueKey(Conformed("orders"), "OrderId")
    /\ UniqueKey(Conformed("customers"), "CustomerId")
    /\ UniqueKey(Conformed("products"), "ProductId")
    /\ UniqueKey(Conformed("countries"), "Country")
FactView == Rows(SilverDbPath, "silver_fact_sales")
\* the rows of the table that carry this SaleId and Quantity
SaleRows(rows, sale) ==
    {n \in DOMAIN rows : rows[n].SaleId = sale.SaleId /\ rows[n].Quantity = sale.Quantity}

\* C8: once the conformed fact view is built over dimension tables whose join
\* keys are unique, it has as many rows as the conformed sales, and each
\* conformed sale appears in it as often as in the conformed sales: none is
\* dropped, none duplicated, whether or not its join keys match.
C8_FactViewOneRowPerSale ==
    ("silver_fact_sales" \in built /\ UniqueDimensionKeys) =>
        /\ Len(FactView) = Len(Conformed("sales"))
        /\ \A n \in DOMAIN Conformed("sales") :
              Cardinality(SaleRows(FactView, Conformed("sales")[n]))
                = Cardinality(SaleRows(Conformed("sales"), Conformed("sales")[n]))
        /\ \A n \in DOMAIN FactView : SaleRows(Conformed("sales"), FactView[n]) # {}

\* a fact view over unique keys with a sale that matched its order and a sale
\* whose order is missing
C8_Witness ==
    /\ "silver_fact_sales" \in built
    /\ UniqueDimensionKeys
    /\ Len(FactView) = 2
    /\ \E n \in DOMAIN FactView : IsNull(FactView[n].OrderId)
    /\ \E n \in DOMAIN FactView : ~IsNull(FactView[n].CustomerCountry)

\* the conformed orders and the calendar dimension in the modeling stage's file
GoldOrders == Rows(GoldDbPath, "silver_orders")
Calendar == Rows(GoldDbPath, "gold_dim_date")
OrderDays == {GoldOrders[n].Date.d : n \in {k \in DOMAIN GoldOrders : ~IsNull(GoldOrders[k].Date)}}
IsFirstDay(lo) == lo \in OrderDays /\ \A d \in OrderDays : lo <= d
IsLastDay(hi) == hi \in OrderDays /\ \A d \in OrderDays : hi >= d

\* C9: when the conformed orders hold at least one non-null order date, the
\* calendar dimension the modeling stage builds has exactly one row for every
\* day from the earliest to the latest order date, both included, no row
\* outside that range, and (latest - earliest) + 1 rows.
C9_CalendarCoversInclusiveRange ==
    ("gold_dim_date" \in built /\ OrderDays # {}) =>
        \A lo, hi \in OrderDays :
            (IsFirstDay(lo) /\ IsLastDay(hi)) =>
                /\ Len(Calendar) = (hi - lo) + 1
                /\ \A day \in lo..hi :
                      Cardinality({n \in DOMAIN Calendar : Calendar[n].Date = DateV(day)}) = 1
                /\ \A n \in DOMAIN Calendar :
                      IsDate(Calendar[n].Date) /\ Calendar[n].Date.d \in lo..hi

\* a calendar of three days built from two order dates two days apart
C9_Witness ==
    /\ "gold_dim_date" \in built
    /\ OrderDays = {BaseDay, BaseDay + 2}
    /\ Len(Calendar) = 3
    /\ \E n \in DOMAIN Calendar : Calendar[n].Date = DateV(BaseDay + 1)

\* the modeling process has ended
GoldEnded == runs # <<>> /\ Last(runs).script = "step03_gold_load.py"

\* C10: when the conformed orders table has zero rows the modeling stage ends
\* in error at the calendar step: it exits non-zero, builds no calendar
\* dimension (not even an empty one) and no dimensional fact table.
C10_ZeroOrdersFailsModeling ==
    (GoldEnded /\ HasTable(GoldDbPath, "silver_orders") /\ GoldOrders = <<>>) =>
        /\ Last(runs).rc # 0
        /\ "gold_dim_date" \notin built
        /\ ~HasTable(GoldDbPath, "gold_dim_date")
        /\ "gold_fact_sales" \notin built

\* the dimensional fact table and the tables it is built from
GoldFact == Rows(GoldDbPath, "gold_fact_sales")
GoldSales == Rows(GoldDbPath, "silver_sales")
GoldProducts == Rows(GoldDbPath, "silver_products")
\* the conformed products a sale's ProductId matches
ProductsOf(sale) == {n \in DOMAIN GoldProducts : SqlEq(sale.ProductId, GoldProducts[n].ProductId)}

\* C11: in every row of the dimensional fact table the total weight is the
\* quantity times the unit weight when both are non-null and NULL otherwise;
\* the unit weight is that of a conformed product with the row's ProductId;
\* and the rows of a conformed sale whose quantity is NULL, whose ProductId
\* matches no conformed product, or whose products all have a NULL weight
\* carry a NULL total weight.
C11_TotalWeightIsProductOrNull ==
    ("gold_fact_sales" \in built /\ HasTable(GoldDbPath, "silver_sales")) =>
        /\ \A n \in DOMAIN GoldFact :
              LET r == GoldFact[n]
              IN  /\ r.TotalWeightGrams =
                        (IF IsNull(r.Quantity) \/ IsNull(r.WeightGrams) THEN NULL
                         ELSE DblV(r.Quantity.f * r.WeightGrams.f))
                  /\ ~IsNull(r.WeightGrams) =>
                        \E k \in DOMAIN GoldProducts :
                            /\ SqlEq(r.ProductId, GoldProducts[k].ProductId)
                            /\ GoldProducts[k].WeightGrams = r.WeightGrams
        /\ \A m \in DOMAIN GoldSales :
              LET sale == GoldSales[m]
              IN  (\/ IsNull(sale.Quantity)
                   \/ \A k \in ProductsOf(sale) : IsNull(GoldProducts[k].WeightGrams))
                  => \A n \in DOMAIN GoldFact :
                        GoldFact[n].SaleId = sale.SaleId => IsNull(GoldFact[n].TotalWeightGrams)
        /\ \A m \in DOMAIN GoldSales :
              LET sale == GoldSales[m]
              IN  (~IsNull(sale.Quantity) /\ ProductsOf(sale) # {}) =>
                     \A k \in ProductsOf(sale) :
                        \E n \in DOMAIN GoldFact :
                           /\ GoldFact[n].SaleId = sale.SaleId
                           /\ GoldFact[n].TotalWeightGrams =
                                 Times(sale.Quantity, GoldProducts[k].WeightGrams)

\* a fact table with a computed total weight (2 x 2 = 4) and a row whose
\* quantity is known but whose product has no weight
C11_Witness ==
    /\ "gold_fact_sales" \in built
    /\ \E n \in DOMAIN GoldFact : GoldFact[n].TotalWeightGrams = DblV(4)
    /\ \E n \in DOMAIN GoldFact :
          /\ ~IsNull(GoldFact[n].Quantity)
          /\ ~IsNull(GoldFact[n].ProductId)
          /\ IsNull(GoldFact[n].WeightGrams)
          /\ IsNull(GoldFact[n].TotalWeightGrams)

\* the conformed sales whose OrderId matches no conformed order
OrphanSales ==
    {m \in DOMAIN Conformed("sales") :
        \A k \in DOMAIN Conformed("orders") :
            ~SqlEq(Conformed("sales")[m].OrderId, Conformed("orders")[k].OrderId)}

\* C12: once the conformed fact view is built, every conformed sale whose
\* OrderId matches no conformed order has a row in it with the sale's SaleId
\* and Quantity and with NULL order id, order date and customer id, name,
\* country and city; and the logged number of sales with missing orders is
\* the number of such sales.
C12_OrphanSaleKeptWithNullsAndCounted ==
    /\ "silver_fact_sales" \in built =>
          \A m \in OrphanSales :
             \E n \in DOMAIN FactView :
                /\ FactView[n].SaleId = Conformed("sales")[m].SaleId
                /\ FactView[n].Quantity = Conformed("sales")[m].Quantity
                /\ IsNull(FactView[n].OrderId)
                /\ IsNull(FactView[n].OrderDate)
                /\ IsNull(FactView[n].CustomerId)
                /\ IsNull(FactView[n].CustomerName)
                /\ IsNull(FactView[n].CustomerCountry)
                /\ IsNull(FactView[n].CustomerCity)
    /\ \A n \in DOMAIN logs.silver :
          logs.silver[n].kind = "Sales with missing orders" =>
             logs.silver[n].a = Cardinality(OrphanSales)

\* two sales without an order, one naming an order that does not exist and
\* one with no OrderId, both in the fact view and both counted
C12_Witness ==
    /\ "silver_fact_sales" \in built
    /\ Cardinality(OrphanSales) = 2
    /\ \E m \in OrphanSales : ~IsNull(Conformed("sales")[m].OrderId)
    /\ \E m \in OrphanSales : IsNull(Conformed("sales")[m].OrderId)
    /\ Len(FactView) = 2
    /\ \E n \in DOMAIN logs.silver :
          logs.silver[n].kind = "Sales with missing orders" /\ logs.silver[n].a = 2

\* the export process has ended after opening the database
ExportEnded ==
    /\ runs # <<>>
    /\ Last(runs).script = "step04_export_medallion_layers.py"
    /\ Last(runs).con # "none"
Failed(n) == ~(exports[n].data /\ exports[n].meta)

\* C13: the export attempts the tables in list order, one entry each; a table
\* whose data file or metadata sidecar was not written is printed FAILED (and
\* only such a table); and an export that opened the database ends with
\* every table of every tier attempted and exit code 0, whatever failed.
C13_ExportBestEffortPerTable ==
    /\ Len(exports) <= Len(ExportList)
    /\ \A n \in DOMAIN exports :
          /\ exports[n].table = ExportList[n]
          /\ exports[n].printed = (IF Failed(n) THEN "FAILED" ELSE "done")
    /\ ExportEnded =>
          /\ Len(exports) = Len(ExportList)
          /\ Last(runs).rc = 0

\* an export that ended with exit code 0 although the first table's data file
\* and a later table's sidecar failed, and that wrote the last table
C13_Witness ==
    /\ ExportEnded
    /\ Last(runs).rc = 0
    /\ exports[1].io /\ ~exports[1].data
    /\ \E n \in DOMAIN exports : exports[n].io /\ exports[n].data /\ ~exports[n].meta
    /\ exports[Len(exports)].printed = "done"

\* the conformed tables the builders of the modeling stage read
GoldSources ==
    {"silver_customers", "silver_products", "silver_countries", "silver_orders",
     "silver_fact_sales"}

\* C14: a modeling run that found one of the conformed tables it reads
\* missing has ended in error having created or replaced no dimensional
\* table.
C14_MissingInputNoPartialBuild ==
    (GoldEnded /\ \E t \in GoldSources : ~HasTable(GoldDbPath, t)) =>
        /\ Last(runs).rc # 0
        /\ built \cap GoldNames = {}

\* the tables each core stage builds, in the order its main() builds them
BuildOrder ==
    [bronze |-> [n \in DOMAIN tables_to_load |-> tables_to_load[n][2]],
     silver |-> << "silver_customers", "silver_products", "silver_orders", "silver_sales",
                   "silver_countries", "silver_fact_sales" >>,
     gold |-> << "gold_dim_customer", "gold_dim_product", "gold_dim_country",
                 "gold_dim_date", "gold_fact_sales" >>]
\* the positions in the stage's log file of the row-count lines of table t
RowCountLines(stage, t) ==
    {n \in DOMAIN logs[stage] :
        /\ logs[stage][n].subject = t
        /\ logs[stage][n].kind \in {"Row count", "row count"}}
LastLine(S) == CHOOSE n \in S : \A m \in S : m <= n
\* every table of the stage built so far by the run has a creation line
\* followed by its row-count line in the stage's log file, the last
\* row-count lines being in build order
BuildsLogged(stage) ==
    LET order == BuildOrder[stage]
    IN  /\ \A k \in DOMAIN order :
              order[k] \in built =>
                 \E n \in RowCountLines(stage, order[k]) :
                    /\ n > 1
                    /\ logs[stage][n - 1].subject = order[k]
                    /\ logs[stage][n - 1].kind \in {"Creating", "creating"}
                    /\ HasTable(con.file, order[k]) =>
                          logs[stage][n].a = Len(Rows(con.file, order[k]))
        /\ \A j, k \in DOMAIN order :
              (j < k /\ order[j] \in built /\ order[k] \in built) =>
                 /\ RowCountLines(stage, order[j]) # {}
                 /\ RowCountLines(stage, order[k]) # {}
                 /\ LastLine(RowCountLines(stage, order[j]))
                       < LastLine(RowCountLines(stage, order[k]))

\* C15: in the ingestion, conformance and modeling stages every table build
\* has written a stage line and the table's row count to the stage's log
\* file, in the order the tables were created.
C15_EveryBuildLoggedWithRowCount ==
    /\ BuildsLogged("bronze")
    /\ BuildsLogged("silver")
    /\ BuildsLogged("gold")

\* the document, its repaired sibling and the repair of the repaired one
Original == docs["customers.json"]
Repaired == docs["customers_fixed.json"]
RepairedTwice == docs["customers_fixed_fixed.json"]
\* the content is line-delimited with no blank line and no line that starts
\* or ends with whitespace
NoBlankNoPadding(content) ==
    /\ content # <<>> => content[1] \notin Whitespace
    /\ content # <<>> => content[Len(content)] # " "
    /\ \A n \in 1..(Len(content) - 1) :
          /\ content[n] = "\n" => content[n + 1] \notin Whitespace
          /\ content[n + 1] = "\n" => content[n] # " "
\* no line of the content ends in a comma
NoTrailingComma(content) ==
    /\ content # <<>> => content[Len(content)] # ","
    /\ \A n \in 1..(Len(content) - 1) : content[n + 1] = "\n" => content[n] # ","
CleanDocument(content) == NoBlankNoPadding(content) /\ NoTrailingComma(content)
LineFeeds(content) == Cardinality({n \in DOMAIN content : content[n] = "\n"})
\* the number of lines of the content, a last line without line feed included
LineCount(content) ==
    LineFeeds(content)
      + (IF content # <<>> /\ content[Len(content)] # "\n" THEN 1 ELSE 0)
\* the content with a line feed after its last line
WithFinalNewline(content) ==
    IF content = <<>> \/ content[Len(content)] = "\n" THEN content
    ELSE content \o << "\n" >>

\* C16: for a clean document (no blank line, no line with leading or
\* trailing whitespace, no line ending in a comma) the repaired file has the
\* content of the document, up to the line feed after the last line, and as
\* many lines; repairing the repaired file yields the same content again.
C16_RepairKeepsCleanDocument ==
    CleanDocument(Original) =>
        /\ "customers_fixed.json" \in DOMAIN docs =>
              /\ Repaired = WithFinalNewline(Original)
              /\ LineCount(Repaired) = LineCount(Original)
        /\ "customers_fixed_fixed.json" \in DOMAIN docs => RepairedTwice = Repaired

\* a clean document of two lines, the last without line feed, repaired twice
C16_Witness ==
    /\ "customers_fixed_fixed.json" \in DOMAIN docs
    /\ Original = << "x", "\n", "x", " ", "x" >>
    /\ Repaired = << "x", "\n", "x", " ", "x", "\n" >>

\* C18: whatever the document, the file fix_to_ndjson writes has no blank
\* line and no line with leading or trailing whitespace.
C18_RepairedFileHasNoBlankOrPaddedLine ==
    "customers_fixed.json" \in DOMAIN docs => NoBlankNoPadding(Repaired)

\* the conformed fact view in the modeling stage's file
GoldFactView == Rows(GoldDbPath, "silver_fact_sales")
\* the rows of the fact view a row of the dimensional fact table comes from
SourceRows(r) ==
    {n \in DOMAIN GoldFactView :
        GoldFactView[n].SaleId = r.SaleId /\ GoldFactView[n].OrderId = r.OrderId}
\* the rows the two LEFT JOINs make of one row of the fact view when the join
\* to the calendar matches at most once
ProductMatches(f) ==
    LET m == Cardinality({k \in DOMAIN GoldProducts : SqlEq(f.ProductId, GoldProducts[k].ProductId)})
    IN  IF m = 0 THEN 1 ELSE m
RECURSIVE SumMatches(_)
SumMatches(rows) ==
    IF rows = <<>> THEN 0 ELSE ProductMatches(Head(rows)) + SumMatches(Tail(rows))
\* every order date of the fact view is a date of the conformed orders
FactViewFromSameOrders ==
    \A n \in DOMAIN GoldFactView :
        ~IsNull(GoldFactView[n].OrderDate) =>
            \E k \in DOMAIN GoldOrders : GoldOrders[k].Date = GoldFactView[n].OrderDate

\* C17: when the dimensional fact table is built from a fact view whose
\* order dates are those of the conformed orders, each of its rows comes from
\* a row of the fact view; its date key is NULL when that row has no order
\* date and is otherwise the date key of the one calendar row for that date;
\* and the fact table has no more rows than the join to the products makes.
C17_DateKeyNullIffNoOrderDate ==
    ("gold_fact_sales" \in built /\ FactViewFromSameOrders) =>
        /\ \A n \in DOMAIN GoldFact :
              /\ SourceRows(GoldFact[n]) # {}
              /\ \A m \in SourceRows(GoldFact[n]) :
                    LET date == GoldFactView[m].OrderDate
                    IN  /\ IsNull(GoldFact[n].DateKey) <=> IsNull(date)
                        /\ ~IsNull(date) =>
                              /\ Cardinality({c \in DOMAIN Calendar : Calendar[c].Date = date}) = 1
                              /\ \E c \in DOMAIN Calendar :
                                    /\ Calendar[c].Date = date
                                    /\ Calendar[c].DateKey = GoldFact[n].DateKey
        /\ \A m \in DOMAIN GoldFactView :
              \E n \in DOMAIN GoldFact : m \in SourceRows(GoldFact[n])
        /\ Len(GoldFact) = SumMatches(GoldFactView)

\* a fact table with the date key of 2020-03-01 on one row and a NULL date
\* key on the row of a sale whose order has no date
C17_Witness ==
    /\ "gold_fact_sales" \in built
    /\ FactViewFromSameOrders
    /\ \E n \in DOMAIN GoldFact : GoldFact[n].DateKey = IntV(20200301)
    /\ \E n \in DOMAIN GoldFact :
          IsNull(GoldFact[n].DateKey) /\ ~IsNull(GoldFact[n].OrderId)

====
